---- MODULE Spec2Model ----
(***************************************************************************)
(* Reverse-osmosis filtration controller (src/main.py): the uasyncio       *)
(* program with its two main loops (handle_button, check_auto_flush) and   *)
(* the operation coroutines they spawn (auto_flush_filter,                 *)
(* long_flush_filter, filter_water with pre_flush_filter and               *)
(* post_flush_filter).                                                     *)
(*                                                                         *)
(* Time is the uptime in milliseconds since the two loops were created.    *)
(* A coroutine runs from one await to the next as one atomic step          *)
(* (cooperative scheduling); a task is ready when it was just created,     *)
(* when a CancelledError is pending for it, or when its sleep is over.     *)
(* The order in which tasks that are ready at the same instant run is not  *)
(* fixed.  The clock moves only when no task is ready, and then to the     *)
(* next instant at which one is.                                           *)
(***************************************************************************)
EXTENDS Integers, Sequences, FiniteSets, TLC

\* ------------------------------------------------------------------ bounds

\* The clock stops at this uptime (ms).
MaxTime == 10000

\* At most this many button presses are made.
MaxPresses == 3

\* CONFIG values (seconds) as loaded by init(): config.json overrides the
\* defaults of main.py, and these are the values it is taken to hold.
CfgPreFlushSec == 1

CfgPostFlushSec == 1

CfgLongFlushSec == 1

CfgDisposalSec == 1

CfgFilterSec == 1

CfgAutoFlushSec == 6

CfgWaterCleanSec == 3

\* SpecLive: presses begin no later than this uptime (ms), and at most this
\* many are made; the clock itself is not stopped.
LivePressUntil == 2000

LiveMaxPresses == 3

\* ---------------------------------------------------- program constants

\* CONFIG['pump_switch_delay'], milliseconds
PumpSwitchDelay == 1000

\* await uasyncio.sleep_ms(2000) after close_inlet_valve()
DrainMs == 2000

\* filter_water(60 * 60)
LongFilterSec == 3600

\* await uasyncio.sleep(1) of check_auto_flush, in ms
AutoFlushPollMs == 1000

\* super_long_pressed = ms_duration >= 5000
SuperLongMs == 5000

\* long_pressed = 800 < ms_duration < 5000
LongMs == 800

\* short_beep, long_beep, super_long_beep: the one sleep of each, in ms
ShortBeepMs == 200

LongBeepMs == 500

SuperLongBeepMs == 1000

\* finish_beeps: its five sleeps, in ms
FinishBeepsMs == <<400, 200, 400, 200, 400>>

\* time.time() when the loops start: the timing store holds 0 ("never"),
\* and the clock read at boot is either still within the thresholds of a
\* flush "at 0" or far beyond them (a real-time clock that counts from an
\* epoch).
BootTimes == {0, 1000}

\* How long the button is held (ms, as measured with ticks_ms): a short, a
\* long and a super-long press.
PressDurations == {100, 1000, 5000}

\* ms_duration of the one press of SpecClassify: values on both sides of
\* the two limits of the classification, and the limits themselves.
ClassifyDurations ==
  {0, 50, 100, 750, 799, 800, 801, 850, 1000, 2500, 4950, 4999, 5000, 5001,
   5050}

VARIABLES
  now,                \* uptime, ms
  bootTime,           \* time.time() at uptime 0, s
  CONFIG,             \* the CONFIG dictionary (the fields the loops read)
  configFile,         \* config.json as last written (or as read at boot)
  pump,               \* PIN_PUMP.value()
  valves,             \* <<PIN_VALVE1..4 .value()>>
  safety_shutdown,    \* 'Safety shut down!' was printed
  last_flush,
  last_filtering,
  start_filtering,
  running_task,       \* index into tasks; 0 is the DummyTask
  running_task_type,  \* "None", "FLUSHING", "FILTERING"
  tasks,              \* every task created with event_loop.create_task
  hb_pc,              \* handle_button: the await it is suspended at
  hb_wake,
  ms_start,
  ms_duration,
  caf_wake,           \* check_auto_flush: end of its sleep(1)
  presses,            \* button presses made so far
  last,               \* history: the last dispatch of handle_button
  lastAuto            \* history: the last start by check_auto_flush

vars == <<now, bootTime, CONFIG, configFile, pump, valves, safety_shutdown,
          last_flush, last_filtering, start_filtering, running_task,
          running_task_type, tasks, hb_pc, hb_wake, ms_start, ms_duration,
          caf_wake, presses, last, lastAuto>>

\* ---------------------------------------------------------------- helpers

\* time.time(): whole seconds
Time == bootTime + (now \div 1000)

Max(a, b) == IF a >= b THEN a ELSE b

\* _set_valves(v1, v2, v3, v4): each pin gets the negation of its argument
SetValves(v1, v2, v3, v4) == <<~v1, ~v2, ~v3, ~v4>>

ClosedLayout == SetValves(FALSE, FALSE, FALSE, FALSE)

DrainLayout == SetValves(FALSE, TRUE, FALSE, FALSE)

FlushLayout == SetValves(TRUE, TRUE, FALSE, FALSE)

DisposalLayout == SetValves(TRUE, FALSE, FALSE, TRUE)

FilterLayout == SetValves(TRUE, FALSE, TRUE, FALSE)

\* close_valves() and close_inlet_valve(): the pump is switched off first
\* when it is still on
\* SafetyOff without the safety shut down: the pump is left as it is
SafetyOff_Skipped(p) == p

SafetyOff(p) == IF p THEN FALSE ELSE p

\* running_task.done()
Done(i) == i = 0 \/ tasks[i].pc = "done"

\* A task: the coroutine (kind), the await it is suspended at (pc), the end
\* of its sleep (wake), duration_sec (dur) and whether a CancelledError is
\* to be thrown into it (throw).  History: how often, when and at which
\* await it was cancelled, and when it entered filter_water's try block.
NewTask(kind, dur) ==
  [kind |-> kind, pc |-> "new", wake |-> now, dur |-> dur, throw |-> FALSE,
   cancels |-> 0, cancelledAt |-> -1, cancelledIn |-> "none",
   filterAt |-> -1]

\* event_loop.create_task(coro): the new task's index
Created == Len(tasks) + 1

\* task.cancel() on a task that is not done: a CancelledError is thrown
\* into it when it next runs, which is now
Cancel(ts, i) ==
  [ts EXCEPT ![i].throw = TRUE,
             ![i].cancels = ts[i].cancels + 1,
             ![i].cancelledAt = now,
             ![i].cancelledIn = ts[i].pc]

\* await uasyncio.sleep_ms(ms) at the await named pc
Sleep(ts, i, pc, ms) == [ts EXCEPT ![i].pc = pc, ![i].wake = now + ms]

\* Finish for a task that is not marked done when its coroutine ends
Finish_NeverDone(ts, i) == [ts EXCEPT ![i].throw = FALSE]

Finish(ts, i) == [ts EXCEPT ![i].pc = "done", ![i].throw = FALSE]

\* the task resumes from its sleep at the await named pc
Resumes(i, pc) ==
  /\ i \in 1..Len(tasks)
  /\ tasks[i].pc = pc
  /\ ~tasks[i].throw
  /\ tasks[i].wake <= now

\* the task resumes with the CancelledError at one of the awaits pcs
Thrown(i, pcs) ==
  /\ i \in 1..Len(tasks)
  /\ tasks[i].pc \in pcs
  /\ tasks[i].throw

TaskReady(i) ==
  /\ tasks[i].pc # "done"
  /\ (tasks[i].throw \/ tasks[i].wake <= now)

\* history of handle_button's decisions: none made yet
NoDispatch ==
  [n |-> 0, at |-> 0, cls |-> "none", idle |-> TRUE, type |-> "None",
   target |-> 0, targetPc |-> "none", made |-> 0]

\* ------------------------------------------------------------------- Init

\* The state when handle_button and check_auto_flush are created: init()
\* has switched the pump off, closed the valves and loaded the
\* configuration, and the greeting beeps are over.
Init ==
  /\ now = 0
  /\ bootTime \in BootTimes
  /\ CONFIG = [pre_flush_sec |-> CfgPreFlushSec,
               post_flush_sec |-> CfgPostFlushSec,
               long_flush_sec |-> CfgLongFlushSec,
               disposal_sec |-> CfgDisposalSec,
               filter_sec |-> CfgFilterSec,
               auto_flush_sec |-> CfgAutoFlushSec,
               water_clean_sec |-> CfgWaterCleanSec,
               pump_switch_delay |-> PumpSwitchDelay]
  /\ configFile = CONFIG
  /\ pump = FALSE
  /\ valves = ClosedLayout
  /\ safety_shutdown = FALSE
  /\ last_flush = 0
  /\ last_filtering = 0
  /\ start_filtering = 0
  /\ running_task = 0
  /\ running_task_type = "None"
  /\ tasks = <<>>
  /\ hb_pc = "poll_press"
  /\ hb_wake = 0
  /\ ms_start = 0
  /\ ms_duration = 0
  /\ caf_wake = AutoFlushPollMs
  /\ presses = 0
  /\ last = NoDispatch
  /\ lastAuto = [n |-> 0, at |-> 0, idle |-> TRUE, task |-> 0]

\* ---------------------------------------------------------- handle_button

super_long_pressed(d) == d >= SuperLongMs

\* long_pressed with the lower limit included
long_pressed_Inclusive(d) == LongMs <= d /\ d < SuperLongMs

long_pressed(d) == LongMs < d /\ d < SuperLongMs

\* the class of a press, as the if/elif/else of the beep takes it
PressClass(d) ==
  IF super_long_pressed(d) THEN "super"
  ELSE IF long_pressed(d) THEN "long" ELSE "short"

\* BeepMs for a tone that is started and not awaited
BeepMs_NotAwaited(d) == 0

\* the sleep inside super_long_beep, long_beep, short_beep
BeepMs(d) ==
  IF super_long_pressed(d) THEN SuperLongBeepMs
  ELSE IF long_pressed(d) THEN LongBeepMs ELSE ShortBeepMs

\* RunningDecision with the long press not looking at the task type: a
\* long press always starts the long filtration
RunningDecision_LongAlwaysFilters(d, type) ==
  IF super_long_pressed(d) THEN "long_flush"
  ELSE IF long_pressed(d) THEN "filter_long"
  ELSE IF type = "FLUSHING" THEN "filter"
  ELSE "nothing"

\* RunningDecision with a plain else as its last branch: a short press
\* always starts a filtration
RunningDecision_ElseFilter(d, type) ==
  IF super_long_pressed(d) THEN "long_flush"
  ELSE IF long_pressed(d) /\ type = "FILTERING" THEN "save"
  ELSE IF long_pressed(d) /\ type = "FLUSHING" THEN "filter_long"
  ELSE "filter"

\* RunningDecision without the branch for a long press while flushing
RunningDecision_LongAsShort(d, type) ==
  IF super_long_pressed(d) THEN "long_flush"
  ELSE IF long_pressed(d) /\ type = "FILTERING" THEN "save"
  ELSE IF type = "FLUSHING" THEN "filter"
  ELSE "nothing"

\* RunningDecision with the super-long press tested after the branches
\* for a filtration in progress
RunningDecision_SuperLast(d, type) ==
  IF (long_pressed(d) \/ super_long_pressed(d)) /\ type = "FILTERING"
    THEN "save"
  ELSE IF super_long_pressed(d) THEN "long_flush"
  ELSE IF long_pressed(d) /\ type = "FLUSHING" THEN "filter_long"
  ELSE IF type = "FLUSHING" THEN "filter"
  ELSE "nothing"

\* RunningDecision with the long press storing filter_sec whatever the
\* task type is
RunningDecision_LongAlwaysSaves(d, type) ==
  IF super_long_pressed(d) THEN "long_flush"
  ELSE IF long_pressed(d) THEN "save"
  ELSE IF type = "FLUSHING" THEN "filter"
  ELSE "nothing"

\* What handle_button does after cancelling a task that is not done:
\* "long_flush", "save" (store the new filter_sec), "filter_long",
\* "filter" or "nothing" (no branch of the if/elif chain applies).
RunningDecision(d, type) ==
  IF super_long_pressed(d) THEN "long_flush"
  ELSE IF long_pressed(d) /\ type = "FILTERING" THEN "save"
  ELSE IF long_pressed(d) /\ type = "FLUSHING" THEN "filter_long"
  ELSE IF type = "FLUSHING" THEN "filter"
  ELSE "nothing"

\* IdleDecision without the branch for the long press
IdleDecision_NoLong(d) ==
  IF super_long_pressed(d) THEN "long_flush" ELSE "filter"

\* What handle_button starts when the system is idle.
IdleDecision(d) ==
  IF super_long_pressed(d) THEN "long_flush"
  ELSE IF long_pressed(d) THEN "filter_long"
  ELSE "filter"

\* LearnedFilterSec measured from the end of the last filtration
LearnedFilterSec_SinceLastFiltering == Time - last_filtering

\* CONFIG['filter_sec'] = time.time() - start_filtering
LearnedFilterSec == Time - start_filtering

\* the task a decision creates (duration_sec = None is -1)
TaskFor(decision) ==
  IF decision = "long_flush" THEN NewTask("long_flush", -1)
  ELSE IF decision = "filter_long" THEN NewTask("filter", LongFilterSec)
  ELSE NewTask("filter", -1)

StartsTask(decision) == decision \in {"long_flush", "filter_long", "filter"}

\* while not is_button_pressed(): the poll finds the button pressed.  The
\* press lasts d ms; the release is seen by the poll d ms later.  Presses
\* begin at the instants at which the clock stands (an instant at which
\* some sleep ends), and only those whose action is dispatched before the
\* clock stops are made.
HbPress ==
  /\ hb_pc = "poll_press"
  /\ presses < MaxPresses
  /\ \E d \in PressDurations :
       /\ now + d + BeepMs(d) <= MaxTime
       /\ hb_wake' = now + d
  /\ ms_start' = now
  /\ hb_pc' = "poll_release"
  /\ presses' = presses + 1
  /\ UNCHANGED <<now, bootTime, CONFIG, configFile, pump, valves,
                 safety_shutdown, last_flush, last_filtering, start_filtering,
                 running_task, running_task_type, tasks, ms_duration,
                 caf_wake, last, lastAuto>>

\* while is_button_pressed(): the poll finds the button released; the beep
\* of the press's class starts.
HbRelease ==
  /\ hb_pc = "poll_release"
  /\ hb_wake <= now
  /\ ms_duration' = now - ms_start
  /\ hb_pc' = "beep"
  /\ hb_wake' = now + BeepMs(now - ms_start)
  /\ UNCHANGED <<now, bootTime, CONFIG, configFile, pump, valves,
                 safety_shutdown, last_flush, last_filtering, start_filtering,
                 running_task, running_task_type, tasks, ms_start,
                 caf_wake, presses, last, lastAuto>>

\* the beep is over: "decide upon the action"
HbDispatch ==
  /\ hb_pc = "beep"
  /\ hb_wake <= now
  /\ hb_pc' = "poll_press"
  /\ LET idle == Done(running_task)
         decision == IF idle THEN IdleDecision(ms_duration)
                     ELSE RunningDecision(ms_duration, running_task_type)
         cancelled == IF idle THEN tasks ELSE Cancel(tasks, running_task)
     IN  /\ tasks' = IF StartsTask(decision)
                     THEN Append(cancelled, TaskFor(decision))
                     ELSE cancelled
         /\ running_task' = IF StartsTask(decision) THEN Created
                            ELSE running_task
         /\ CONFIG' = IF decision = "save"
                      THEN [CONFIG EXCEPT !.filter_sec = LearnedFilterSec]
                      ELSE CONFIG
         /\ configFile' = IF decision = "save" THEN CONFIG' ELSE configFile
         /\ last' = [n |-> last.n + 1, at |-> now,
                     cls |-> PressClass(ms_duration), idle |-> idle,
                     type |-> running_task_type, target |-> running_task,
                     targetPc |-> IF running_task = 0 THEN "none"
                                  ELSE tasks[running_task].pc,
                     made |-> Len(tasks') - Len(tasks)]
  /\ UNCHANGED <<now, bootTime, pump, valves, safety_shutdown, last_flush,
                 last_filtering, start_filtering, running_task_type, hb_wake,
                 ms_start, ms_duration, caf_wake, presses, lastAuto>>

\* ------------------------------------------------------- check_auto_flush

\* AutoFlushBlocked without the test of running_task.done()
AutoFlushBlocked_Never == FALSE

\* if not running_task.done(): continue
AutoFlushBlocked == ~Done(running_task)

\* auto_flush_needed
AutoFlushNeeded ==
  Time - Max(last_flush, last_filtering) > CONFIG.auto_flush_sec

\* one round of the loop: the sleep(1) is over
CheckAutoFlush ==
  /\ caf_wake <= now
  /\ caf_wake' = now + AutoFlushPollMs
  /\ IF ~AutoFlushBlocked /\ AutoFlushNeeded
     THEN /\ tasks' = Append(tasks, NewTask("auto_flush", -1))
          /\ running_task' = Created
          /\ lastAuto' = [n |-> lastAuto.n + 1, at |-> now,
                          idle |-> Done(running_task), task |-> Created]
     ELSE UNCHANGED <<tasks, running_task, lastAuto>>
  /\ UNCHANGED <<now, bootTime, CONFIG, configFile, pump, valves,
                 safety_shutdown, last_flush, last_filtering, start_filtering,
                 running_task_type, hb_pc, hb_wake, ms_start, ms_duration,
                 presses, last>>

\* ------------------------------------------------- the operation sequences
\* Each action is one run of a task from the await it is suspended at to
\* its next await (or to its end).  i is the task's index.

Sec(s) == s * 1000

\* auto_flush_filter: from its start to the first sleep_ms
AutoFlushStart(i) ==
  /\ Resumes(i, "new") /\ tasks[i].kind = "auto_flush"
  /\ running_task_type' = "FLUSHING"
  /\ valves' = FlushLayout
  /\ tasks' = Sleep(tasks, i, "af_delay1", CONFIG.pump_switch_delay)
  /\ UNCHANGED <<now, bootTime, CONFIG, configFile, pump, safety_shutdown,
                 last_flush, last_filtering, start_filtering, running_task,
                 hb_pc, hb_wake, ms_start, ms_duration, caf_wake, presses,
                 last, lastAuto>>

\* set_pump(True); sleep(pre_flush_sec)
AutoFlushPumpOn(i) ==
  /\ Resumes(i, "af_delay1")
  /\ pump' = TRUE
  /\ tasks' = Sleep(tasks, i, "af_pre", Sec(CONFIG.pre_flush_sec))
  /\ UNCHANGED <<now, bootTime, CONFIG, configFile, valves, safety_shutdown,
                 last_flush, last_filtering, start_filtering, running_task,
                 running_task_type, hb_pc, hb_wake, ms_start, ms_duration,
                 caf_wake, presses, last, lastAuto>>

\* AutoFlushDisposal without set_valves_to_disposal()
AutoFlushDisposal_KeepsLayout(i) ==
  /\ Resumes(i, "af_pre")
  /\ valves' = valves
  /\ tasks' = Sleep(tasks, i, "af_disp", Sec(CONFIG.disposal_sec))
  /\ UNCHANGED <<now, bootTime, CONFIG, configFile, pump, safety_shutdown,
                 last_flush, last_filtering, start_filtering, running_task,
                 running_task_type, hb_pc, hb_wake, ms_start, ms_duration,
                 caf_wake, presses, last, lastAuto>>

\* set_valves_to_disposal(); sleep(disposal_sec)
AutoFlushDisposal(i) ==
  /\ Resumes(i, "af_pre")
  /\ valves' = DisposalLayout
  /\ tasks' = Sleep(tasks, i, "af_disp", Sec(CONFIG.disposal_sec))
  /\ UNCHANGED <<now, bootTime, CONFIG, configFile, pump, safety_shutdown,
                 last_flush, last_filtering, start_filtering, running_task,
                 running_task_type, hb_pc, hb_wake, ms_start, ms_duration,
                 caf_wake, presses, last, lastAuto>>

\* set_valves_to_flush(); sleep(post_flush_sec)
AutoFlushPost(i) ==
  /\ Resumes(i, "af_disp")
  /\ valves' = FlushLayout
  /\ tasks' = Sleep(tasks, i, "af_post", Sec(CONFIG.post_flush_sec))
  /\ UNCHANGED <<now, bootTime, CONFIG, configFile, pump, safety_shutdown,
                 last_flush, last_filtering, start_filtering, running_task,
                 running_task_type, hb_pc, hb_wake, ms_start, ms_duration,
                 caf_wake, presses, last, lastAuto>>

\* set_pump(False); sleep_ms(pump_switch_delay)
AutoFlushPumpOff(i) ==
  /\ Resumes(i, "af_post")
  /\ pump' = FALSE
  /\ tasks' = Sleep(tasks, i, "af_delay2", CONFIG.pump_switch_delay)
  /\ UNCHANGED <<now, bootTime, CONFIG, configFile, valves, safety_shutdown,
                 last_flush, last_filtering, start_filtering, running_task,
                 running_task_type, hb_pc, hb_wake, ms_start, ms_duration,
                 caf_wake, presses, last, lastAuto>>

\* close_inlet_valve(); sleep_ms(2000)
AutoFlushDrain(i) ==
  /\ Resumes(i, "af_delay2")
  /\ safety_shutdown' = (safety_shutdown \/ pump)
  /\ pump' = SafetyOff(pump)
  /\ valves' = DrainLayout
  /\ tasks' = Sleep(tasks, i, "af_drain", DrainMs)
  /\ UNCHANGED <<now, bootTime, CONFIG, configFile, last_flush,
                 last_filtering, start_filtering, running_task,
                 running_task_type, hb_pc, hb_wake, ms_start, ms_duration,
                 caf_wake, presses, last, lastAuto>>

\* close_valves(); finally: last_flush = time.time()
AutoFlushClose(i) ==
  /\ Resumes(i, "af_drain")
  /\ safety_shutdown' = (safety_shutdown \/ pump)
  /\ pump' = SafetyOff(pump)
  /\ valves' = ClosedLayout
  /\ last_flush' = Time
  /\ tasks' = Finish(tasks, i)
  /\ UNCHANGED <<now, bootTime, CONFIG, configFile, last_filtering,
                 start_filtering, running_task, running_task_type, hb_pc,
                 hb_wake, ms_start, ms_duration, caf_wake, presses, last,
                 lastAuto>>

AutoFlushAwaits ==
  {"af_delay1", "af_pre", "af_disp", "af_post", "af_delay2", "af_drain"}

\* CancelledError at any await of auto_flush_filter: only the finally runs
AutoFlushCancelled(i) ==
  /\ Thrown(i, AutoFlushAwaits)
  /\ last_flush' = Time
  /\ tasks' = Finish(tasks, i)
  /\ UNCHANGED <<now, bootTime, CONFIG, configFile, pump, valves,
                 safety_shutdown, last_filtering, start_filtering,
                 running_task, running_task_type, hb_pc, hb_wake, ms_start,
                 ms_duration, caf_wake, presses, last, lastAuto>>

\* A task cancelled before it first ran: the CancelledError is thrown into
\* a coroutine that has not started, and none of its code runs.
CancelledUnstarted(i) ==
  /\ Thrown(i, {"new"})
  /\ tasks' = Finish(tasks, i)
  /\ UNCHANGED <<now, bootTime, CONFIG, configFile, pump, valves,
                 safety_shutdown, last_flush, last_filtering, start_filtering,
                 running_task, running_task_type, hb_pc, hb_wake, ms_start,
                 ms_duration, caf_wake, presses, last, lastAuto>>

\* long_flush_filter: from its start to sleep(long_flush_sec)
LongFlushStart(i) ==
  /\ Resumes(i, "new") /\ tasks[i].kind = "long_flush"
  /\ running_task_type' = "FLUSHING"
  /\ valves' = FlushLayout
  /\ tasks' = Sleep(tasks, i, "lf_wait", Sec(CONFIG.long_flush_sec))
  /\ UNCHANGED <<now, bootTime, CONFIG, configFile, pump, safety_shutdown,
                 last_flush, last_filtering, start_filtering, running_task,
                 hb_pc, hb_wake, ms_start, ms_duration, caf_wake, presses,
                 last, lastAuto>>

\* the sleep is over, or it is cancelled: finally: last_flush = time.time()
LongFlushEnd(i) ==
  /\ i \in 1..Len(tasks)
  /\ tasks[i].pc = "lf_wait"
  /\ TaskReady(i)
  /\ last_flush' = Time
  /\ tasks' = Finish(tasks, i)
  /\ UNCHANGED <<now, bootTime, CONFIG, configFile, pump, valves,
                 safety_shutdown, last_filtering, start_filtering,
                 running_task, running_task_type, hb_pc, hb_wake, ms_start,
                 ms_duration, caf_wake, presses, last, lastAuto>>

\* flush_needed that looks at last_flush only
FlushNeeded_LastFlushOnly == Time - last_flush > CONFIG.water_clean_sec

\* flush_needed of filter_water
FlushNeeded ==
  Time - Max(last_flush, last_filtering) > CONFIG.water_clean_sec

\* pre_flush_filter up to its first sleep_ms
EnterPreFlush(i, ts) ==
  /\ running_task_type' = "FLUSHING"
  /\ valves' = FlushLayout
  /\ tasks' = Sleep(ts, i, "pf_delay", CONFIG.pump_switch_delay)
  /\ UNCHANGED start_filtering

\* the try block of filter_water up to its first sleep_ms
EnterFilterPhase(i, ts) ==
  /\ running_task_type' = "FILTERING"
  /\ start_filtering' = Time
  /\ valves' = FilterLayout
  /\ tasks' = [Sleep(ts, i, "fw_delay", CONFIG.pump_switch_delay)
                 EXCEPT ![i].filterAt = Time]

\* EnterPostFlush without set_valves_to_flush()
EnterPostFlush_KeepsLayout(i) ==
  /\ running_task_type' = "FLUSHING"
  /\ valves' = valves
  /\ tasks' = Sleep(tasks, i, "po_wait", Sec(CONFIG.post_flush_sec))

\* post_flush_filter up to its sleep
EnterPostFlush(i) ==
  /\ running_task_type' = "FLUSHING"
  /\ valves' = FlushLayout
  /\ tasks' = Sleep(tasks, i, "po_wait", Sec(CONFIG.post_flush_sec))

\* filter_water: duration_sec, flush_needed, and on to the first sleep_ms
\* of pre_flush_filter or of the try block
FilterStart(i) ==
  /\ Resumes(i, "new") /\ tasks[i].kind = "filter"
  /\ LET dur == IF tasks[i].dur = -1 THEN CONFIG.filter_sec ELSE tasks[i].dur
         ts == [tasks EXCEPT ![i].dur = dur]
     IN  IF FlushNeeded THEN EnterPreFlush(i, ts) ELSE EnterFilterPhase(i, ts)
  /\ UNCHANGED <<now, bootTime, CONFIG, configFile, pump, safety_shutdown,
                 last_flush, last_filtering, running_task, hb_pc, hb_wake,
                 ms_start, ms_duration, caf_wake, presses, last, lastAuto>>

\* pre_flush_filter: set_pump(True); sleep(pre_flush_sec)
PreFlushPumpOn(i) ==
  /\ Resumes(i, "pf_delay")
  /\ pump' = TRUE
  /\ tasks' = Sleep(tasks, i, "pf_pre", Sec(CONFIG.pre_flush_sec))
  /\ UNCHANGED <<now, bootTime, CONFIG, configFile, valves, safety_shutdown,
                 last_flush, last_filtering, start_filtering, running_task,
                 running_task_type, hb_pc, hb_wake, ms_start, ms_duration,
                 caf_wake, presses, last, lastAuto>>

\* pre_flush_filter: set_valves_to_disposal(); sleep(disposal_sec)
PreFlushDisposal(i) ==
  /\ Resumes(i, "pf_pre")
  /\ valves' = DisposalLayout
  /\ tasks' = Sleep(tasks, i, "pf_disp", Sec(CONFIG.disposal_sec))
  /\ UNCHANGED <<now, bootTime, CONFIG, configFile, pump, safety_shutdown,
                 last_flush, last_filtering, start_filtering, running_task,
                 running_task_type, hb_pc, hb_wake, ms_start, ms_duration,
                 caf_wake, presses, last, lastAuto>>

\* pre_flush_filter returns; filter_water enters its try block
PreFlushDone(i) ==
  /\ Resumes(i, "pf_disp")
  /\ EnterFilterPhase(i, tasks)
  /\ UNCHANGED <<now, bootTime, CONFIG, configFile, pump, safety_shutdown,
                 last_flush, last_filtering, running_task, hb_pc, hb_wake,
                 ms_start, ms_duration, caf_wake, presses, last, lastAuto>>

PreFlushAwaits == {"pf_delay", "pf_pre", "pf_disp"}

\* CancelledError at an await of pre_flush_filter: its finally is "pass",
\* and the await of pre_flush_filter() is outside filter_water's try, so
\* the task ends there
PreFlushCancelled(i) ==
  /\ Thrown(i, PreFlushAwaits)
  /\ tasks' = Finish(tasks, i)
  /\ UNCHANGED <<now, bootTime, CONFIG, configFile, pump, valves,
                 safety_shutdown, last_flush, last_filtering, start_filtering,
                 running_task, running_task_type, hb_pc, hb_wake, ms_start,
                 ms_duration, caf_wake, presses, last, lastAuto>>

\* set_pump(True); sleep(duration_sec)
FilterPumpOn(i) ==
  /\ Resumes(i, "fw_delay")
  /\ pump' = TRUE
  /\ tasks' = Sleep(tasks, i, "fw_filter", Sec(tasks[i].dur))
  /\ UNCHANGED <<now, bootTime, CONFIG, configFile, valves, safety_shutdown,
                 last_flush, last_filtering, start_filtering, running_task,
                 running_task_type, hb_pc, hb_wake, ms_start, ms_duration,
                 caf_wake, presses, last, lastAuto>>

BeepAwaits == <<"fw_beep1", "fw_beep2", "fw_beep3", "fw_beep4", "fw_beep5">>

\* the filter wait is over: finish_beeps() up to its first sleep
FilterWaitDone(i) ==
  /\ Resumes(i, "fw_filter")
  /\ tasks' = Sleep(tasks, i, BeepAwaits[1], FinishBeepsMs[1])
  /\ UNCHANGED <<now, bootTime, CONFIG, configFile, pump, valves,
                 safety_shutdown, last_flush, last_filtering, start_filtering,
                 running_task, running_task_type, hb_pc, hb_wake, ms_start,
                 ms_duration, caf_wake, presses, last, lastAuto>>

\* finish_beeps(): on to its next sleep
FinishBeepsNext(i) ==
  /\ \E k \in 1..(Len(BeepAwaits) - 1) :
       /\ Resumes(i, BeepAwaits[k])
       /\ tasks' = Sleep(tasks, i, BeepAwaits[k + 1], FinishBeepsMs[k + 1])
  /\ UNCHANGED <<now, bootTime, CONFIG, configFile, pump, valves,
                 safety_shutdown, last_flush, last_filtering, start_filtering,
                 running_task, running_task_type, hb_pc, hb_wake, ms_start,
                 ms_duration, caf_wake, presses, last, lastAuto>>

\* finish_beeps() returns; finally: post_flush_filter() up to its sleep
FinishBeepsDone(i) ==
  /\ Resumes(i, BeepAwaits[Len(BeepAwaits)])
  /\ EnterPostFlush(i)
  /\ UNCHANGED <<now, bootTime, CONFIG, configFile, pump, safety_shutdown,
                 last_flush, last_filtering, start_filtering, running_task,
                 hb_pc, hb_wake, ms_start, ms_duration, caf_wake, presses,
                 last, lastAuto>>

FilterAwaits ==
  {"fw_delay", "fw_filter"} \cup {BeepAwaits[k] : k \in 1..Len(BeepAwaits)}

\* CancelledError at an await inside filter_water's try block: the finally
\* starts with post_flush_filter(), up to its sleep
FilterCancelled(i) ==
  /\ Thrown(i, FilterAwaits)
  /\ running_task_type' = "FLUSHING"
  /\ valves' = FlushLayout
  /\ tasks' = Sleep([tasks EXCEPT ![i].throw = FALSE], i, "po_wait",
                    Sec(CONFIG.post_flush_sec))
  /\ UNCHANGED <<now, bootTime, CONFIG, configFile, pump, safety_shutdown,
                 last_flush, last_filtering, start_filtering, running_task,
                 hb_pc, hb_wake, ms_start, ms_duration, caf_wake, presses,
                 last, lastAuto>>

\* post_flush_filter's sleep is over: last_flush = time.time(); then
\* set_pump(False); sleep_ms(pump_switch_delay)
PostFlushDone(i) ==
  /\ Resumes(i, "po_wait")
  /\ last_flush' = Time
  /\ pump' = FALSE
  /\ tasks' = Sleep(tasks, i, "cl_delay", CONFIG.pump_switch_delay)
  /\ UNCHANGED <<now, bootTime, CONFIG, configFile, valves, safety_shutdown,
                 last_filtering, start_filtering, running_task,
                 running_task_type, hb_pc, hb_wake, ms_start, ms_duration,
                 caf_wake, presses, last, lastAuto>>

\* CancelledError at post_flush_filter's sleep: its finally sets last_flush,
\* and the rest of filter_water's finally is skipped
PostFlushCancelled(i) ==
  /\ Thrown(i, {"po_wait"})
  /\ last_flush' = Time
  /\ tasks' = Finish(tasks, i)
  /\ UNCHANGED <<now, bootTime, CONFIG, configFile, pump, valves,
                 safety_shutdown, last_filtering, start_filtering,
                 running_task, running_task_type, hb_pc, hb_wake, ms_start,
                 ms_duration, caf_wake, presses, last, lastAuto>>

\* close_inlet_valve(); sleep_ms(2000)
CleanupDrain(i) ==
  /\ Resumes(i, "cl_delay")
  /\ safety_shutdown' = (safety_shutdown \/ pump)
  /\ pump' = SafetyOff(pump)
  /\ valves' = DrainLayout
  /\ tasks' = Sleep(tasks, i, "cl_drain", DrainMs)
  /\ UNCHANGED <<now, bootTime, CONFIG, configFile, last_flush,
                 last_filtering, start_filtering, running_task,
                 running_task_type, hb_pc, hb_wake, ms_start, ms_duration,
                 caf_wake, presses, last, lastAuto>>

\* close_valves(); last_filtering = time.time()
CleanupClose(i) ==
  /\ Resumes(i, "cl_drain")
  /\ safety_shutdown' = (safety_shutdown \/ pump)
  /\ pump' = SafetyOff(pump)
  /\ valves' = ClosedLayout
  /\ last_filtering' = Time
  /\ tasks' = Finish(tasks, i)
  /\ UNCHANGED <<now, bootTime, CONFIG, configFile, last_flush,
                 start_filtering, running_task, running_task_type, hb_pc,
                 hb_wake, ms_start, ms_duration, caf_wake, presses, last,
                 lastAuto>>

\* CancelledError at one of the two sleeps of filter_water's finally: the
\* rest of the finally is skipped
CleanupCancelled(i) ==
  /\ Thrown(i, {"cl_delay", "cl_drain"})
  /\ tasks' = Finish(tasks, i)
  /\ UNCHANGED <<now, bootTime, CONFIG, configFile, pump, valves,
                 safety_shutdown, last_flush, last_filtering, start_filtering,
                 running_task, running_task_type, hb_pc, hb_wake, ms_start,
                 ms_duration, caf_wake, presses, last, lastAuto>>

\* -------------------------------------------------------------- the clock

\* some task or loop can run now
SomeReady ==
  \/ \E i \in 1..Len(tasks) : TaskReady(i)
  \/ hb_pc \in {"poll_release", "beep"} /\ hb_wake <= now
  \/ caf_wake <= now

\* the instants at which a sleep ends
Wakes ==
  {tasks[i].wake : i \in {j \in 1..Len(tasks) : tasks[j].pc # "done"}}
    \cup (IF hb_pc \in {"poll_release", "beep"} THEN {hb_wake} ELSE {})
    \cup {caf_wake}

\* nothing can run: the clock moves to the next wake-up
Tick ==
  /\ ~SomeReady
  /\ LET next == CHOOSE t \in Wakes : \A u \in Wakes : t <= u
     IN  /\ next <= MaxTime
         /\ now' = next
  /\ UNCHANGED <<bootTime, CONFIG, configFile, pump, valves, safety_shutdown,
                 last_flush, last_filtering, start_filtering, running_task,
                 running_task_type, tasks, hb_pc, hb_wake, ms_start,
                 ms_duration, caf_wake, presses, last, lastAuto>>

TaskIds == 1..Len(tasks)

Next ==
  \/ HbPress
  \/ HbRelease
  \/ HbDispatch
  \/ CheckAutoFlush
  \/ \E i \in TaskIds : AutoFlushStart(i)
  \/ \E i \in TaskIds : AutoFlushPumpOn(i)
  \/ \E i \in TaskIds : AutoFlushDisposal(i)
  \/ \E i \in TaskIds : AutoFlushPost(i)
  \/ \E i \in TaskIds : AutoFlushPumpOff(i)
  \/ \E i \in TaskIds : AutoFlushDrain(i)
  \/ \E i \in TaskIds : AutoFlushClose(i)
  \/ \E i \in TaskIds : AutoFlushCancelled(i)
  \/ \E i \in TaskIds : CancelledUnstarted(i)
  \/ \E i \in TaskIds : LongFlushStart(i)
  \/ \E i \in TaskIds : LongFlushEnd(i)
  \/ \E i \in TaskIds : FilterStart(i)
  \/ \E i \in TaskIds : PreFlushPumpOn(i)
  \/ \E i \in TaskIds : PreFlushDisposal(i)
  \/ \E i \in TaskIds : PreFlushDone(i)
  \/ \E i \in TaskIds : PreFlushCancelled(i)
  \/ \E i \in TaskIds : FilterPumpOn(i)
  \/ \E i \in TaskIds : FilterWaitDone(i)
  \/ \E i \in TaskIds : FinishBeepsNext(i)
  \/ \E i \in TaskIds : FinishBeepsDone(i)
  \/ \E i \in TaskIds : FilterCancelled(i)
  \/ \E i \in TaskIds : PostFlushDone(i)
  \/ \E i \in TaskIds : PostFlushCancelled(i)
  \/ \E i \in TaskIds : CleanupDrain(i)
  \/ \E i \in TaskIds : CleanupClose(i)
  \/ \E i \in TaskIds : CleanupCancelled(i)
  \/ Tick

Spec == Init /\ [][Next]_vars

\* ---------------------------------------------------------------- SpecLive
\* The program with the clock running on for as long as something is left
\* to wait for: a sequence that has not ended, a press in progress, or the
\* time in which the button may still be pressed.

\* every task has ended and the button loop is polling for a press
Quiet ==
  /\ \A i \in TaskIds : tasks[i].pc = "done"
  /\ hb_pc = "poll_press"

\* HbPress with the bounds of SpecLive
HbPressLive ==
  /\ hb_pc = "poll_press"
  /\ presses < LiveMaxPresses
  /\ now <= LivePressUntil
  /\ \E d \in PressDurations : hb_wake' = now + d
  /\ ms_start' = now
  /\ hb_pc' = "poll_release"
  /\ presses' = presses + 1
  /\ UNCHANGED <<now, bootTime, CONFIG, configFile, pump, valves,
                 safety_shutdown, last_flush, last_filtering, start_filtering,
                 running_task, running_task_type, tasks, ms_duration,
                 caf_wake, last, lastAuto>>

\* nothing can run: the clock moves to the next wake-up
TickLive ==
  /\ ~SomeReady
  /\ ~Quiet \/ now < LivePressUntil
  /\ now' = CHOOSE t \in Wakes : \A u \in Wakes : t <= u
  /\ UNCHANGED <<bootTime, CONFIG, configFile, pump, valves, safety_shutdown,
                 last_flush, last_filtering, start_filtering, running_task,
                 running_task_type, tasks, hb_pc, hb_wake, ms_start,
                 ms_duration, caf_wake, presses, last, lastAuto>>

\* what the event loop does by itself: everything but the pressing of the
\* button
Scheduled ==
  \/ HbRelease
  \/ HbDispatch
  \/ CheckAutoFlush
  \/ \E i \in TaskIds : AutoFlushStart(i)
  \/ \E i \in TaskIds : AutoFlushPumpOn(i)
  \/ \E i \in TaskIds : AutoFlushDisposal(i)
  \/ \E i \in TaskIds : AutoFlushPost(i)
  \/ \E i \in TaskIds : AutoFlushPumpOff(i)
  \/ \E i \in TaskIds : AutoFlushDrain(i)
  \/ \E i \in TaskIds : AutoFlushClose(i)
  \/ \E i \in TaskIds : AutoFlushCancelled(i)
  \/ \E i \in TaskIds : CancelledUnstarted(i)
  \/ \E i \in TaskIds : LongFlushStart(i)
  \/ \E i \in TaskIds : LongFlushEnd(i)
  \/ \E i \in TaskIds : FilterStart(i)
  \/ \E i \in TaskIds : PreFlushPumpOn(i)
  \/ \E i \in TaskIds : PreFlushDisposal(i)
  \/ \E i \in TaskIds : PreFlushDone(i)
  \/ \E i \in TaskIds : PreFlushCancelled(i)
  \/ \E i \in TaskIds : FilterPumpOn(i)
  \/ \E i \in TaskIds : FilterWaitDone(i)
  \/ \E i \in TaskIds : FinishBeepsNext(i)
  \/ \E i \in TaskIds : FinishBeepsDone(i)
  \/ \E i \in TaskIds : FilterCancelled(i)
  \/ \E i \in TaskIds : PostFlushDone(i)
  \/ \E i \in TaskIds : PostFlushCancelled(i)
  \/ \E i \in TaskIds : CleanupDrain(i)
  \/ \E i \in TaskIds : CleanupClose(i)
  \/ \E i \in TaskIds : CleanupCancelled(i)
  \/ TickLive

NextLive == HbPressLive \/ Scheduled

\* The event loop runs whatever is ready and time passes; whether the
\* button is pressed is up to the user.
SpecLive == Init /\ [][NextLive]_vars /\ WF_vars(Scheduled)

\* The button loop alone, for one press of each duration of
\* ClassifyDurations: the poll finds the button pressed right after boot,
\* with the clock at 0 (so that the press is dispatched before the first
\* auto flush is due); the tasks the dispatch creates are not run.
InitClassify ==
  /\ now = 0
  /\ bootTime = 0
  /\ CONFIG = [pre_flush_sec |-> CfgPreFlushSec,
               post_flush_sec |-> CfgPostFlushSec,
               long_flush_sec |-> CfgLongFlushSec,
               disposal_sec |-> CfgDisposalSec,
               filter_sec |-> CfgFilterSec,
               auto_flush_sec |-> CfgAutoFlushSec,
               water_clean_sec |-> CfgWaterCleanSec,
               pump_switch_delay |-> PumpSwitchDelay]
  /\ configFile = CONFIG
  /\ pump = FALSE
  /\ valves = ClosedLayout
  /\ safety_shutdown = FALSE
  /\ last_flush = 0
  /\ last_filtering = 0
  /\ start_filtering = 0
  /\ running_task = 0
  /\ running_task_type = "None"
  /\ tasks = <<>>
  /\ hb_pc = "poll_release"
  /\ hb_wake \in ClassifyDurations
  /\ ms_start = 0
  /\ ms_duration = 0
  /\ caf_wake = AutoFlushPollMs
  /\ presses = 1
  /\ last = NoDispatch
  /\ lastAuto = [n |-> 0, at |-> 0, idle |-> TRUE, task |-> 0]

NextClassify ==
  \/ HbRelease
  \/ HbDispatch
  \/ CheckAutoFlush
  \/ Tick

SpecClassify == InitClassify /\ [][NextClassify]_vars

\* ------------------------------------------------------------- properties

\* the name of the valve layout
Layout ==
  CASE valves = ClosedLayout -> "Closed"
    [] valves = DrainLayout -> "Drain"
    [] valves = FlushLayout -> "Flush"
    [] valves = DisposalLayout -> "Disposal"
    [] valves = FilterLayout -> "Filter"
    [] OTHER -> "other"

\* a sequence that has started, has not ended, and has no CancelledError
\* waiting to be delivered to it
Executing(i) == tasks[i].pc \notin {"new", "done"} /\ ~tasks[i].throw

\* C1 (as claimed): at most one operation sequence is executing or suspended
\* mid-sequence at any instant; a cancelled task does not go on driving the
\* actuators beside its replacement.
C1_MutualExclusion == Cardinality({i \in TaskIds : Executing(i)}) <= 1

\* C2 (as claimed): whenever the pump is on, the valve layout is Flush,
\* Disposal or Filter; it is never on in the Closed or Drain layout.
C2_PumpSafety == pump => Layout \in {"Flush", "Disposal", "Filter"}

\* time.time() at uptime ms
TimeAt(ms) == bootTime + (ms \div 1000)

\* the waits of a filtration before its cleanup: those of the pre-flush,
\* the switch delay, the filter wait and the completion tone
FiltrationWaits == PreFlushAwaits \cup FilterAwaits

\* C3 (as claimed): a filtration cancelled once at one of its wait steps,
\* with no button event after that, ends only through its cleanup: in the
\* step in which its task ends, last_flush and last_filtering are not
\* earlier than the cancellation, the pump is off and the layout is Closed.
C3_CleanupAlwaysRuns ==
  [][\A i \in TaskIds :
       ( /\ tasks[i].kind = "filter"
         /\ tasks[i].cancels = 1
         /\ tasks[i].cancelledIn \in FiltrationWaits
         /\ last.at = tasks[i].cancelledAt
         /\ last'.at = last.at
         /\ tasks[i].pc # "done"
         /\ tasks'[i].pc = "done" )
       => ( /\ last_flush' >= TimeAt(tasks[i].cancelledAt)
            /\ last_filtering' >= TimeAt(tasks[i].cancelledAt)
            /\ ~pump'
            /\ Layout' = "Closed" )]_vars

\* the step of handle_button that decides upon the action
DispatchStep == hb_pc = "beep" /\ hb_pc' = "poll_press"

\* the states of the task slot, as handle_button reads them
SlotIdle == Done(running_task)

SlotFiltering == ~Done(running_task) /\ running_task_type = "FILTERING"

SlotFlushing == ~Done(running_task) /\ running_task_type = "FLUSHING"

\* the step starts exactly one task, of this kind and duration_sec, and
\* puts it into the slot
StartsOne(kind, dur) ==
  /\ Len(tasks') = Len(tasks) + 1
  /\ tasks'[Len(tasks')].kind = kind
  /\ tasks'[Len(tasks')].dur = dur
  /\ tasks'[Len(tasks')].pc = "new"
  /\ running_task' = Len(tasks')

\* the step cancels the slot's task
CancelsSlot ==
  /\ ~tasks[running_task].throw
  /\ tasks'[running_task].throw
  /\ tasks'[running_task].pc = tasks[running_task].pc

\* the step starts no task and leaves the slot as it is
StartsNone == Len(tasks') = Len(tasks) /\ running_task' = running_task

\* C4 (as claimed): a long press dispatched while the slot is Filtering
\* does not cancel the task and starts no task.
C4_LongPressKeepsFiltering ==
  [][(DispatchStep /\ SlotFiltering /\ PressClass(ms_duration) = "long")
       => tasks' = tasks /\ running_task' = running_task]_vars

\* C4 (amended): a long press dispatched while the slot is Filtering cancels
\* the filtration (the CancelledError ends its wait and its cleanup starts),
\* starts no task and leaves the cancelled task in the slot; pump and
\* valves are as they were when the step ends.
C4_LongPressCancelsFiltering ==
  [][(DispatchStep /\ SlotFiltering /\ PressClass(ms_duration) = "long")
       => /\ tasks[running_task].kind = "filter"
          /\ tasks[running_task].pc \in FilterAwaits
          /\ CancelsSlot
          /\ StartsNone
          /\ pump' = pump /\ valves' = valves]_vars

C4_Witness ==
  /\ last.cls = "long" /\ ~last.idle /\ last.type = "FILTERING"
  /\ last.targetPc = "fw_filter"
  /\ last.made = 0
  /\ running_task = last.target
  /\ tasks[running_task].pc = "po_wait"
  /\ tasks[running_task].cancelledAt = last.at

\* C5 (as claimed): a short press dispatched while the slot is Filtering
\* cancels the filtration and starts a new filtration with the default
\* duration, which the slot then holds.
C5_ShortPressRestartsFiltering ==
  [][(DispatchStep /\ SlotFiltering /\ PressClass(ms_duration) = "short")
       => CancelsSlot /\ StartsOne("filter", -1)]_vars

\* C5 (amended): a short press dispatched while the slot is Filtering
\* cancels the filtration and starts no task; the slot keeps the cancelled
\* task.
C5_ShortPressStopsFiltering ==
  [][(DispatchStep /\ SlotFiltering /\ PressClass(ms_duration) = "short")
       => /\ tasks[running_task].kind = "filter"
          /\ CancelsSlot
          /\ StartsNone]_vars

C5_Witness ==
  /\ last.cls = "short" /\ ~last.idle /\ last.type = "FILTERING"
  /\ last.made = 0
  /\ running_task = last.target
  /\ tasks[running_task].cancelledAt = last.at
  /\ tasks[running_task].kind = "filter"

\* C6: a long press dispatched while the slot is Filtering sets
\* CONFIG['filter_sec'] to the current time minus the time at which the
\* slot's filtration entered its filter phase, and writes the configuration
\* with that value to the file in the same step; no other field changes.
C6_LongPressLearnsFilterSec ==
  [][(DispatchStep /\ SlotFiltering /\ PressClass(ms_duration) = "long")
       => /\ tasks[running_task].filterAt >= 0
          /\ CONFIG'.filter_sec = Time - tasks[running_task].filterAt
          /\ CONFIG' = [CONFIG EXCEPT !.filter_sec = CONFIG'.filter_sec]
          /\ configFile' = CONFIG']_vars

C6_Witness ==
  /\ last.cls = "long" /\ ~last.idle /\ last.type = "FILTERING"
  /\ CONFIG.filter_sec = TimeAt(last.at) - tasks[last.target].filterAt
  /\ CONFIG.filter_sec # CfgFilterSec
  /\ configFile.filter_sec = CONFIG.filter_sec

\* C7: a button event dispatched while the slot is idle starts exactly one
\* task and puts it into the slot: a filtration with the default duration
\* for a short press, a filtration of 3600 s for a long press, a long flush
\* for a super-long press; no task is cancelled.
C7_IdleDispatch ==
  [][(DispatchStep /\ SlotIdle)
       => /\ PressClass(ms_duration) = "short" => StartsOne("filter", -1)
          /\ PressClass(ms_duration) = "long" => StartsOne("filter", 3600)
          /\ PressClass(ms_duration) = "super" => StartsOne("long_flush", -1)
          /\ SubSeq(tasks', 1, Len(tasks)) = tasks]_vars

C7_Witness ==
  /\ last.idle /\ last.cls = "long" /\ last.made = 1
  /\ last.target # 0
  /\ running_task = Len(tasks)
  /\ tasks[running_task].kind = "filter"
  /\ tasks[running_task].dur = 3600
  /\ tasks[running_task].pc = "fw_filter"

\* C8: a button event dispatched while the slot is Flushing cancels the
\* slot's task and starts exactly one replacement in the same step: a
\* filtration with the default duration for a short press, a filtration of
\* 3600 s for a long press, a long flush for a super-long press.
C8_FlushingDispatch ==
  [][(DispatchStep /\ SlotFlushing)
       => /\ CancelsSlot
          /\ PressClass(ms_duration) = "short" => StartsOne("filter", -1)
          /\ PressClass(ms_duration) = "long" => StartsOne("filter", 3600)
          /\ PressClass(ms_duration) = "super" => StartsOne("long_flush", -1)]_vars

C8_Witness ==
  /\ ~last.idle /\ last.type = "FLUSHING" /\ last.cls = "long"
  /\ last.targetPc = "af_pre"
  /\ last.made = 1
  /\ tasks[last.target].cancelledAt = last.at
  /\ running_task = last.target + 1
  /\ tasks[running_task].kind = "filter"
  /\ tasks[running_task].dur = 3600

\* C9: a super-long press dispatched while the slot is Filtering cancels
\* the filtration and starts a long flush, which the slot then holds.
C9_SuperLongWhileFiltering ==
  [][(DispatchStep /\ SlotFiltering /\ PressClass(ms_duration) = "super")
       => /\ tasks[running_task].kind = "filter"
          /\ CancelsSlot
          /\ StartsOne("long_flush", -1)]_vars

C9_Witness ==
  /\ ~last.idle /\ last.type = "FILTERING" /\ last.cls = "super"
  /\ last.made = 1
  /\ tasks[last.target].kind = "filter"
  /\ tasks[last.target].cancelledAt = last.at
  /\ running_task = last.target + 1
  /\ tasks[running_task].kind = "long_flush"
  /\ tasks[running_task].pc = "lf_wait"

\* C10: check_auto_flush starts an auto flush only in a step in which
\* running_task.done() is true, and the new task is in the slot when that
\* step ends.
C10_AutoFlushOnlyWhenIdle ==
  [][(/\ Len(tasks') > Len(tasks)
      /\ tasks'[Len(tasks')].kind = "auto_flush")
       => /\ Done(running_task)
          /\ Len(tasks') = Len(tasks) + 1
          /\ running_task' = Len(tasks')
          /\ caf_wake' > now]_vars

C10_Witness ==
  /\ lastAuto.n > 0 /\ lastAuto.idle /\ lastAuto.at = now
  /\ running_task = lastAuto.task
  /\ tasks[running_task].kind = "auto_flush"
  /\ tasks[running_task].pc = "new"
  /\ hb_pc = "beep"
  /\ caf_wake = now + AutoFlushPollMs

\* C11 (as claimed): as long as no button press has occurred, no auto flush
\* is started before auto_flush_sec have elapsed since boot, at most one is
\* started, and one has been started once a poll has found the threshold
\* exceeded.
C11_IdleAutoFlushTiming ==
  presses = 0 =>
    /\ lastAuto.n > 0 => lastAuto.at >= Sec(CONFIG.auto_flush_sec)
    /\ lastAuto.n <= 1
    /\ now > Sec(CONFIG.auto_flush_sec) + AutoFlushPollMs => lastAuto.n = 1

\* the tone and the task of a press of class c that is dispatched while the
\* slot is idle
BeepOfClass(c) ==
  IF c = "super" THEN SuperLongBeepMs
  ELSE IF c = "long" THEN LongBeepMs ELSE ShortBeepMs

KindOfClass(c) == IF c = "super" THEN "long_flush" ELSE "filter"

DurOfClass(c) == IF c = "long" THEN LongFilterSec ELSE -1

\* the press is treated as one of class c: its tone lasts as long as the
\* tone of that class, and its dispatch from idle starts that class's task
TreatedAs(c) ==
  /\ hb_pc = "beep" => hb_wake = ms_start + ms_duration + BeepOfClass(c)
  /\ (last.n = 1 /\ last.idle) =>
       /\ Len(tasks) = 1
       /\ tasks[1].kind = KindOfClass(c)
       /\ tasks[1].dur = DurOfClass(c)

\* the press has been measured
Measured == hb_pc = "beep" \/ last.n = 1

\* C12 (as claimed): a press of d ms is treated as short if d < 800, as long
\* if 800 <= d <= 4999, as super-long if d >= 5000.
C12_ClassificationAsClaimed ==
  Measured =>
    TreatedAs(IF ms_duration < 800 THEN "short"
              ELSE IF ms_duration <= 4999 THEN "long" ELSE "super")

\* C12 (amended): a press of d ms is treated as short if d <= 800, as long
\* if 801 <= d <= 4999, as super-long if d >= 5000; 799, 800, 4999 and 5000
\* ms are short, short, long and super-long.
C12_Classification ==
  Measured =>
    TreatedAs(IF ms_duration <= 800 THEN "short"
              ELSE IF ms_duration <= 4999 THEN "long" ELSE "super")

C12_Witness ==
  /\ ms_duration = 800
  /\ last.n = 1 /\ last.idle /\ last.cls = "short"
  /\ tasks[1].kind = "filter" /\ tasks[1].dur = -1

\* the slot's task is the filtration that the last button event, a short
\* press dispatched while the slot was idle, has started; no button event
\* has been dispatched since
DefaultRun ==
  /\ last.cls = "short" /\ last.idle /\ last.made = 1
  /\ running_task > 0
  /\ tasks[running_task].kind = "filter"
  /\ tasks[running_task].cancels = 0

\* C13 (as claimed): during the filter wait of a filtration started by a
\* short press from idle and not interrupted since, the pump is on in the
\* Filter layout and the wait is the filter_sec read at the start; when the
\* run has ended, last_filtering has been set after the start and filter_sec
\* is still that value.
C13_DefaultRunDuration ==
  DefaultRun =>
    /\ tasks[running_task].pc = "fw_filter" =>
         /\ pump /\ Layout = "Filter"
         /\ tasks[running_task].dur = CONFIG.filter_sec
    /\ tasks[running_task].pc = "done" =>
         /\ last_filtering >= TimeAt(last.at)
         /\ tasks[running_task].dur = CONFIG.filter_sec

\* the awaits after which a sequence calls close_inlet_valve() or
\* close_valves()
ClosingAwaits == {"af_delay2", "af_drain", "cl_delay", "cl_drain"}

\* task i resumes from such an await and makes the call
ClosingStep(i) ==
  /\ \E pc \in ClosingAwaits : Resumes(i, pc)
  /\ tasks'[i].pc # tasks[i].pc

\* C14: a step that calls close_valves() or close_inlet_valve() ends with
\* the layout Closed or Drain and the pump off, whatever the pump was
\* before; if the pump was on, the safety shut down has been signalled.
C14_ClosingSwitchesPumpOff ==
  [][\A i \in TaskIds :
       ClosingStep(i) =>
         /\ Layout' \in {"Closed", "Drain"}
         /\ ~pump'
         /\ pump => safety_shutdown']_vars

C14_Witness ==
  /\ safety_shutdown /\ ~pump /\ Layout = "Drain"
  /\ \E i \in TaskIds :
       /\ tasks[i].pc = "cl_drain" /\ tasks[i].wake = now + DrainMs
       /\ \E j \in TaskIds : j # i /\ tasks[j].pc = "fw_filter"

\* in this step task i leaves a flush sequence, by completing it or by a
\* CancelledError at one of its waits: auto flush, long flush, post-flush
FlushEnds(i) ==
  \/ tasks[i].pc \in AutoFlushAwaits \cup {"lf_wait"} /\ tasks'[i].pc = "done"
  \/ tasks[i].pc = "po_wait" /\ tasks'[i].pc # "po_wait"

\* in this step task i leaves the pre-flush of a filtration, into the filter
\* phase or by a CancelledError
PreFlushEnds(i) ==
  tasks[i].pc \in PreFlushAwaits /\ tasks'[i].pc \in {"fw_delay", "done"}

\* C15 (as claimed): when an auto flush, the pre-flush of a filtration, a
\* post-flush or a long flush completes or is cancelled at one of its waits,
\* last_flush is set to the current time in that step.
C15_FlushRecordsTime ==
  [][\A i \in TaskIds :
       (FlushEnds(i) \/ PreFlushEnds(i)) => last_flush' = Time]_vars

\* the waits of filter_water's finally: the post-flush wait, the switch
\* delay after the pump is switched off, the 2000 ms in the Drain layout
CleanupAwaits == {"po_wait", "cl_delay", "cl_drain"}

\* C16 (as claimed): a filtration whose cleanup is cancelled by a button
\* event at one of the cleanup's waits still ends through the rest of the
\* cleanup: in the step in which its task ends, the pump is off, the layout
\* is Closed and last_filtering is set to the current time.
C16_CleanupSurvivesCancel ==
  [][\A i \in TaskIds :
       ( /\ tasks[i].kind = "filter"
         /\ tasks[i].cancelledIn \in CleanupAwaits
         /\ tasks[i].pc # "done"
         /\ tasks'[i].pc = "done" )
       => ( /\ ~pump'
            /\ Layout' = "Closed"
            /\ last_filtering' = Time )]_vars

\* the awaits of filter_water from its try block on, in the order of the
\* code, and the end of the task
FilterPhaseOrder ==
  <<"fw_delay", "fw_filter">> \o BeepAwaits
    \o <<"po_wait", "cl_delay", "cl_drain", "done">>

Position(pc) ==
  CHOOSE k \in 1..Len(FilterPhaseOrder) : FilterPhaseOrder[k] = pc

\* task i, a filtration that no button event has cancelled, moves on
RunsOn(i) ==
  /\ tasks[i].kind = "filter"
  /\ tasks'[i].cancels = 0
  /\ tasks'[i].pc # tasks[i].pc

\* C17: every step of a filtration that has not been cancelled is the next
\* one of: start_filtering set and layout Filter, switch-delay wait, pump
\* on, filter wait of the chosen duration, completion tone (pump and valves
\* untouched), layout Flush with the pump untouched and post-flush wait,
\* last_flush set and pump off, switch-delay wait, layout Drain, 2000 ms,
\* layout Closed and last_filtering set.
C17_FilterPhaseOrder ==
  [][\A i \in TaskIds : RunsOn(i) =>
       LET pc == tasks[i].pc
           to == tasks'[i].pc
           wait == tasks'[i].wake - now
       IN  /\ to = "fw_delay" =>
                /\ pc \in {"new", "pf_disp"}
                /\ start_filtering' = Time
                /\ Layout' = "Filter" /\ pump' = pump
                /\ wait = CONFIG.pump_switch_delay
           /\ pc \in FilterAwaits \cup CleanupAwaits =>
                to = FilterPhaseOrder[Position(pc) + 1]
           /\ pc = "fw_delay" =>
                /\ pump' /\ valves' = valves
                /\ wait = Sec(tasks[i].dur)
                /\ tasks[i].dur \in {CONFIG.filter_sec, LongFilterSec}
           /\ pc \in {"fw_filter"} \cup
                     {BeepAwaits[k] : k \in 1..(Len(BeepAwaits) - 1)} =>
                /\ pump' = pump /\ valves' = valves
                /\ last_flush' = last_flush
           /\ pc = BeepAwaits[Len(BeepAwaits)] =>
                /\ Layout' = "Flush" /\ pump' = pump
                /\ wait = Sec(CONFIG.post_flush_sec)
           /\ pc = "po_wait" =>
                /\ last_flush' = Time
                /\ ~pump' /\ valves' = valves
                /\ wait = CONFIG.pump_switch_delay
           /\ pc = "cl_delay" => Layout' = "Drain" /\ wait = DrainMs
           /\ pc = "cl_drain" =>
                Layout' = "Closed" /\ last_filtering' = Time]_vars

C17_Witness ==
  \E i \in TaskIds :
    /\ tasks[i].kind = "filter" /\ tasks[i].cancels = 0
    /\ tasks[i].pc = "done" /\ tasks[i].filterAt >= 0
    /\ Layout = "Closed" /\ ~pump
    /\ last_filtering = Time /\ last_flush = Time - 3
    /\ running_task = i

\* the awaits of auto_flush_filter in the order of the code, from the
\* creation of the task to its end
AutoFlushOrder ==
  <<"new", "af_delay1", "af_pre", "af_disp", "af_post", "af_delay2",
    "af_drain", "done">>

AutoPosition(pc) ==
  CHOOSE k \in 1..Len(AutoFlushOrder) : AutoFlushOrder[k] = pc

\* C18: every step of an auto flush that has not been cancelled is the next
\* one of: layout Flush, switch-delay wait, pump on, pre-flush wait, layout
\* Disposal, disposal wait, layout Flush, post-flush wait, pump off,
\* switch-delay wait, layout Drain, 2000 ms, layout Closed; its last step
\* leaves the pump off, the layout Closed, last_flush at the current time
\* and the slot holding the finished task.
C18_AutoFlushOrder ==
  [][\A i \in TaskIds :
       ( /\ tasks[i].kind = "auto_flush"
         /\ tasks'[i].cancels = 0
         /\ tasks'[i].pc # tasks[i].pc ) =>
       LET pc == tasks[i].pc
           wait == tasks'[i].wake - now
       IN  /\ tasks'[i].pc = AutoFlushOrder[AutoPosition(pc) + 1]
           /\ pc = "new" =>
                /\ Layout' = "Flush" /\ pump' = pump
                /\ wait = CONFIG.pump_switch_delay
           /\ pc = "af_delay1" =>
                /\ pump' /\ valves' = valves
                /\ wait = Sec(CONFIG.pre_flush_sec)
           /\ pc = "af_pre" =>
                /\ Layout' = "Disposal" /\ pump' = pump
                /\ wait = Sec(CONFIG.disposal_sec)
           /\ pc = "af_disp" =>
                /\ Layout' = "Flush" /\ pump' = pump
                /\ wait = Sec(CONFIG.post_flush_sec)
           /\ pc = "af_post" =>
                /\ ~pump' /\ valves' = valves
                /\ wait = CONFIG.pump_switch_delay
           /\ pc = "af_delay2" => Layout' = "Drain" /\ wait = DrainMs
           /\ pc = "af_drain" =>
                /\ Layout' = "Closed" /\ ~pump'
                /\ last_flush' = Time
                /\ running_task' = i
           /\ pc # "af_drain" => last_flush' = last_flush]_vars

C18_Witness ==
  \E i \in TaskIds :
    /\ tasks[i].kind = "auto_flush" /\ tasks[i].cancels = 0
    /\ tasks[i].pc = "done"
    /\ running_task = i /\ Done(running_task)
    /\ Layout = "Closed" /\ ~pump
    /\ last_flush = Time

\* C19: when a filtration task starts running, it begins with the pre-flush
\* if the current time is more than water_clean_sec after both last_flush
\* and last_filtering; otherwise (one of them is at most water_clean_sec
\* old) it goes straight to the Filter layout.
C19_PreFlushDecision ==
  [][\A i \in TaskIds :
       ( /\ tasks[i].kind = "filter"
         /\ tasks[i].pc = "new"
         /\ tasks'[i].pc # "new"
         /\ ~tasks[i].throw ) =>
       IF /\ Time - last_flush > CONFIG.water_clean_sec
          /\ Time - last_filtering > CONFIG.water_clean_sec
       THEN tasks'[i].pc = "pf_delay" /\ Layout' = "Flush"
       ELSE tasks'[i].pc = "fw_delay" /\ Layout' = "Filter"]_vars

C19_Witness ==
  \E i \in TaskIds :
    /\ tasks[i].kind = "filter"
    /\ tasks[i].pc = "fw_delay"
    /\ tasks[i].wake = now + CONFIG.pump_switch_delay
    /\ Layout = "Filter"
    /\ Time - last_flush > CONFIG.water_clean_sec
    /\ Time - last_filtering <= CONFIG.water_clean_sec
    /\ last_filtering > 0

\* C20 (as claimed): in every execution (a) a step that switches the pump
\* from off to on finds the layout Flush or Filter, as it was set a switch
\* delay before, and leaves it so; (b) Flush or Filter is entered from a
\* layout that is closed to pumping (Closed, Drain) only while the pump is
\* off, and Drain is entered only while the pump is off, as it was switched
\* a switch delay before.
C20_SettlingInterlock ==
  [][ /\ (~pump /\ pump') =>
           Layout \in {"Flush", "Filter"} /\ valves' = valves
      /\ (Layout \in {"Closed", "Drain"} /\ Layout' \in {"Flush", "Filter"})
           => ~pump
      /\ (Layout # "Drain" /\ Layout' = "Drain") => ~pump ]_vars

\* C21: a step changes CONFIG only if it is the dispatch of a long press
\* while the slot's task is not done and of type FILTERING, and then only
\* the field filter_sec; every other step leaves all fields as they are.
C21_FilterSecFrame ==
  [][CONFIG' # CONFIG =>
       /\ DispatchStep /\ SlotFiltering
       /\ PressClass(ms_duration) = "long"
       /\ tasks[running_task].kind = "filter"
       /\ CONFIG' = [CONFIG EXCEPT !.filter_sec = CONFIG'.filter_sec]]_vars

C21_Witness ==
  /\ CONFIG.filter_sec # CfgFilterSec
  /\ CONFIG = [configFile EXCEPT !.filter_sec = CONFIG.filter_sec]
  /\ CONFIG.pre_flush_sec = CfgPreFlushSec
  /\ CONFIG.auto_flush_sec = CfgAutoFlushSec
  /\ CONFIG.water_clean_sec = CfgWaterCleanSec
  /\ last.cls = "long" /\ last.type = "FILTERING" /\ ~last.idle
  /\ last.at = now

\* C22: every press that has been released is dispatched exactly once (the
\* dispatches made are the presses made, less the one in progress); a
\* dispatch comes no earlier than the end of the tone of the press's class,
\* and it decides on the slot as it is then: a task that is not done (also
\* one that was started after the release) is cancelled, and with the slot
\* idle nothing is cancelled and one task is started.
C22_FeedbackBeforeDispatch ==
  [][ /\ presses = last.n + (IF hb_pc = "poll_press" THEN 0 ELSE 1)
      /\ last' # last <=> DispatchStep
      /\ DispatchStep =>
           /\ last'.n = last.n + 1
           /\ now >= ms_start + ms_duration
                       + BeepOfClass(PressClass(ms_duration))
           /\ ~Done(running_task) => CancelsSlot
           /\ Done(running_task) =>
                /\ Len(tasks') = Len(tasks) + 1
                /\ SubSeq(tasks', 1, Len(tasks)) = tasks ]_vars

C22_Witness ==
  /\ last.at = now /\ ~last.idle /\ last.cls = "super"
  /\ lastAuto.n > 0 /\ lastAuto.task = last.target
  /\ lastAuto.at > ms_start + ms_duration
  /\ tasks[last.target].cancelledAt = now
  /\ hb_pc = "poll_press" /\ presses = last.n

\* every sequence has ended and the slot is idle
AllFinished ==
  /\ \A i \in TaskIds : tasks[i].pc = "done"
  /\ Done(running_task)

\* C23: at any time, if the button is not pressed again, the sequences that
\* are running or have been cancelled all end and the slot becomes idle
\* (presses are finitely many, so this is: again and again, every sequence
\* has ended and the slot is idle).
C23_ReturnToIdle == []<>AllFinished

C23_Witness ==
  /\ AllFinished
  /\ Len(tasks) >= 2
  /\ tasks[1].kind = "filter" /\ tasks[1].cancels > 0
  /\ tasks[Len(tasks)].kind = "filter"
  /\ tasks[Len(tasks)].dur = LongFilterSec
  /\ tasks[Len(tasks)].cancels = 0
  /\ now > Sec(LongFilterSec)

\* C24 (as claimed): whenever the slot is idle and no sequence, cancelled or
\* not, is still running, the pump is off.
C24_IdleImpliesPumpOff == AllFinished => ~pump

\* C25 (as claimed): while the slot's task is suspended in the filter wait
\* of filter_water, the layout is Filter and the pump is on; while it is
\* suspended in the wait of long_flush_filter, the layout is Flush.
C25_ActuatorsFollowSlot ==
  (running_task > 0 /\ ~tasks[running_task].throw) =>
    /\ tasks[running_task].pc = "fw_filter" => Layout = "Filter" /\ pump
    /\ tasks[running_task].pc = "lf_wait" => Layout = "Flush"

\* C26 (as claimed): close_valves() and close_inlet_valve() are never called
\* while the pump is on: the safety shut down is never signalled.
C26_NoSafetyShutdown == ~safety_shutdown

====
